---- MODULE Spec2Model ----
(***************************************************************************)
(* A model of archai/common/utils.py: AverageMeter, deep_update and        *)
(* deep_comp.                                                              *)
(*                                                                         *)
(* Python objects live in a heap (a sequence of objects, the address being *)
(* the index).  A dict is an object whose items are <<key, value>> pairs   *)
(* in insertion order; a value is an int, NaN, None or a reference to a    *)
(* heap object (dict, list, or an object carrying a __dict__).             *)
(***************************************************************************)
EXTENDS Integers, Sequences, FiniteSets, TLC

VARIABLES
    heap,       \* the object heap: Seq of [kind, items, elems]
    tRoot,      \* the value passed as d (the merge target)
    sRoot,      \* the value passed as u (the merge source)
    tIn,        \* the structure of the target before the call
    sIn,        \* the structure of the source before the call
    res1,       \* the structure of the target after the first call
    ret,        \* the value the last deep_update call returned
    err,        \* TRUE when the last call raised
    cmp,        \* the result of the last deep_comp call
    o1, o2,     \* the values passed to deep_comp
    pc,         \* the caller's position
    avg, sum, cnt, last,   \* the fields of the AverageMeter
    hist        \* the <<val, n>> pairs given to update since the last reset

vars == <<heap, tRoot, sRoot, tIn, sIn, res1, ret, err, cmp, o1, o2, pc,
          avg, sum, cnt, last, hist>>

mergeVars == <<tRoot, sRoot, tIn, sIn, res1, ret>>
compVars == <<o1, o2>>
meterVars == <<avg, sum, cnt, last, hist>>

(***************************************************************************)
(* Bounds                                                                  *)
(***************************************************************************)
MaxTargetEntries == 2     \* entries (at any depth) of the merge target
MaxSourceEntries == 2     \* entries (at any depth) of the merge source
MaxCompEntries == 2       \* entries of each of two deep_comp arguments
MaxSelfEntries == 3       \* entries of a value compared with itself
MaxUpdates == 3           \* AverageMeter updates since the last reset

Keys == {"a", "b"}
KeyOrders == {<<"a", "b">>, <<"b", "a">>}

(***************************************************************************)
(* Values and heap objects                                                 *)
(***************************************************************************)
IntV(n) == [tag |-> "int", n |-> n]
NanV == [tag |-> "nan", n |-> 0]
NoneV == [tag |-> "none", n |-> 0]
Ref(a) == [tag |-> "ref", n |-> a]

NewObj(kind, elems) == [kind |-> kind, items |-> <<>>, elems |-> elems]

IsKind(h, v, kind) == v.tag = "ref" /\ h[v.n].kind = kind

\* isinstance(o, dict); also what d must be for d.get and d[k] = v to work
IsDict(h, v) == IsKind(h, v, "dict")

NeverMapping(h, v) == FALSE

\* isinstance(v, Mapping)
IsMapping(h, v) == IsKind(h, v, "dict")

\* getattr(o, '__dict__', None) is not None
HasDict(h, v) == IsKind(h, v, "obj")

KeysOf(h, a) == {h[a].items[i][1] : i \in 1..Len(h[a].items)}

\* d[k], for k in d
GetItem(h, a, k) ==
    LET i == CHOOSE j \in 1..Len(h[a].items) : h[a].items[j][1] = k
    IN  h[a].items[i][2]

\* d[k] = v : an existing key keeps its position, a new key is appended
SetItem(h, a, k, v) ==
    LET its == h[a].items
        new == IF k \in KeysOf(h, a)
               THEN [i \in 1..Len(its) |->
                        IF its[i][1] = k THEN <<k, v>> ELSE its[i]]
               ELSE Append(its, <<k, v>>)
    IN  [h EXCEPT ![a].items = new]

\* del d[k]
DelItem(h, a, k) ==
    LET its == h[a].items
        keep == {i \in 1..Len(its) : its[i][1] # k}
        RECURSIVE Pick(_)
        Pick(i) == IF i > Len(its) THEN <<>>
                   ELSE IF i \in keep THEN <<its[i]>> \o Pick(i + 1)
                   ELSE Pick(i + 1)
    IN  [h EXCEPT ![a].items = Pick(1)]

(***************************************************************************)
(* Structures.  A structure is a set of <<path, desc>>: the path of keys   *)
(* from the root and what is found there, <<kind, payload>>.  It is what a *)
(* nested value looks like with insertion order and object identity        *)
(* forgotten.                                                              *)
(***************************************************************************)
DictD == <<"dict", <<>>>>
ObjD == <<"obj", <<>>>>
NanD == <<"nan", <<>>>>
NoneD == <<"none", <<>>>>
IntD(n) == <<"int", <<n>>>>
ListD(s) == <<"list", s>>

IsContainerD(d) == d[1] \in {"dict", "obj"}

\* what the caller puts in the target, in the source, and in the two
\* arguments of deep_comp
TargetKinds == {IntD(1), ListD(<<1, 2>>), DictD}
SourceKinds == {IntD(2), NanD, ListD(<<3>>), DictD}
PairRoots == {IntD(1), NanD, NoneD, DictD, ObjD}
PairKinds == {IntD(1), IntD(2), DictD, ObjD}
SelfKinds == {IntD(1), NanD, NoneD, ListD(<<1, 2>>), DictD, ObjD}

Paths(t) == {e[1] : e \in t}
At(t, p) == (CHOOSE e \in t : e[1] = p)[2]
IsPrefix(p, q) == Len(p) <= Len(q) /\ SubSeq(q, 1, Len(p)) = p
\* the structure found at path p of t
Sub(t, p) == {<<SubSeq(e[1], Len(p) + 1, Len(e[1])), e[2]>> :
                 e \in {x \in t : IsPrefix(p, x[1])}}

\* one more entry under the root or under a nested container of a kind in
\* inner
Extend(t, kinds, inner) ==
    UNION {{t \cup {<<Append(p, k), d>>} :
               k \in {x \in Keys : Append(p, x) \notin Paths(t)},
               d \in kinds} :
           p \in {e[1] : e \in {x \in t : /\ IsContainerD(x[2])
                                          /\ x[1] = <<>> \/ x[2] \in inner}}}

\* the structures of at most n entries
RECURSIVE Structures(_, _, _, _)
Structures(n, roots, kinds, inner) ==
    IF n = 0 THEN {{<<<<>>, r>>} : r \in roots}
    ELSE LET prev == Structures(n - 1, roots, kinds, inner)
         IN  prev \cup UNION {Extend(t, kinds, inner) : t \in prev}

Targets == Structures(MaxTargetEntries, {DictD}, TargetKinds, {DictD})
Sources == Structures(MaxSourceEntries, {DictD}, SourceKinds, {DictD})
Pairs == Structures(MaxCompEntries, PairRoots, PairKinds, {DictD})
Selves == Structures(MaxSelfEntries, SelfKinds, SelfKinds, {DictD, ObjD})

\* build the structure t (from path p down) in the heap, dicts filled in
\* the key order ord; the result is the new heap and the value built
RECURSIVE Build(_, _, _, _), BuildItems(_, _, _, _, _, _)
Build(h, t, p, ord) ==
    LET d == At(t, p)
    IN  CASE d[1] = "int"  -> [heap |-> h, val |-> IntV(d[2][1])]
          [] d[1] = "nan"  -> [heap |-> h, val |-> NanV]
          [] d[1] = "none" -> [heap |-> h, val |-> NoneV]
          [] d[1] = "list" -> [heap |-> Append(h, NewObj("list", d[2])),
                               val |-> Ref(Len(h) + 1)]
          [] OTHER ->
                [heap |-> BuildItems(Append(h, NewObj(d[1], <<>>)),
                                     t, p, ord, Len(h) + 1, 1),
                 val |-> Ref(Len(h) + 1)]

BuildItems(h, t, p, ord, a, i) ==
    IF i > Len(ord) THEN h
    ELSE IF Append(p, ord[i]) \in Paths(t)
         THEN LET r == Build(h, t, Append(p, ord[i]), ord)
              IN  BuildItems(SetItem(r.heap, a, ord[i], r.val),
                             t, p, ord, a, i + 1)
         ELSE BuildItems(h, t, p, ord, a, i + 1)

\* the structure of the value v in the heap h
RECURSIVE StructOf(_, _, _)
StructOf(h, v, p) ==
    CASE v.tag = "int"  -> {<<p, IntD(v.n)>>}
      [] v.tag = "nan"  -> {<<p, NanD>>}
      [] v.tag = "none" -> {<<p, NoneD>>}
      [] OTHER ->
           IF h[v.n].kind = "list" THEN {<<p, ListD(h[v.n].elems)>>}
           ELSE {<<p, <<h[v.n].kind, <<>>>>>>} \cup
                UNION {StructOf(h, h[v.n].items[i][2],
                                Append(p, h[v.n].items[i][1])) :
                          i \in 1..Len(h[v.n].items)}

\* the addresses of the objects of the given kind reachable from v
RECURSIVE Reach(_, _, _)
Reach(h, v, kind) ==
    IF v.tag # "ref" THEN {}
    ELSE (IF h[v.n].kind = kind THEN {v.n} ELSE {}) \cup
         UNION {Reach(h, h[v.n].items[i][2], kind) :
                   i \in 1..Len(h[v.n].items)}

(***************************************************************************)
(* deep_update(d, u, map_type=dict)                                        *)
(***************************************************************************)
GetAlwaysDefault(h, a, k, dflt) == dflt

\* d.get(k, dflt)
GetOrDefault(h, a, k, dflt) ==
    IF k \in KeysOf(h, a) THEN GetItem(h, a, k) ELSE dflt

StoreResultDropped(h, a, k, v) == h

\* d[k] = deep_update(...)
StoreResult(h, a, k, v) == SetItem(h, a, k, v)

StoreLeafIfAbsent(h, a, k, v) ==
    IF k \in KeysOf(h, a) THEN h ELSE SetItem(h, a, k, v)

StoreLeafExtending(h, a, k, v) ==
    IF /\ k \in KeysOf(h, a)
       /\ IsKind(h, GetItem(h, a, k), "list")
       /\ IsKind(h, v, "list")
    THEN SetItem(Append(h, NewObj("list", h[GetItem(h, a, k).n].elems
                                          \o h[v.n].elems)),
                 a, k, Ref(Len(h) + 1))
    ELSE SetItem(h, a, k, v)

\* d[k] = v
StoreLeaf(h, a, k, v) == SetItem(h, a, k, v)

\* the loop over u.items(), from the i-th item on.  d is any value: d.get
\* and d[k] = v raise unless d is a dict.
RECURSIVE deep_update(_, _, _), deep_update_from(_, _, _, _)
deep_update_from(h, d, u, i) ==
    IF i > Len(h[u].items)
    THEN [heap |-> h, ret |-> d, err |-> FALSE]
    ELSE LET k == h[u].items[i][1]
             v == h[u].items[i][2]
         IN  IF ~IsDict(h, d)
             THEN [heap |-> h, ret |-> d, err |-> TRUE]
             ELSE IF IsMapping(h, v)
             THEN LET \* map_type() is evaluated before d.get is called
                      h1 == Append(h, NewObj("dict", <<>>))
                      got == GetOrDefault(h, d.n, k, Ref(Len(h1)))
                      r == deep_update(h1, got, v.n)
                  IN  IF r.err THEN r
                      ELSE deep_update_from(StoreResult(r.heap, d.n, k, r.ret),
                                            d, u, i + 1)
             ELSE deep_update_from(StoreLeaf(h, d.n, k, v), d, u, i + 1)

deep_update(h, d, u) == deep_update_from(h, d, u, 1)

(***************************************************************************)
(* deep_comp(o1, o2)                                                       *)
(***************************************************************************)
PyEqNoneUnequal(h, v1, v2) ==
    CASE v1.tag = "int" /\ v2.tag = "int" -> v1.n = v2.n
      [] v1.tag = "ref" /\ v2.tag = "ref" ->
            IF v1.n = v2.n THEN TRUE
            ELSE /\ h[v1.n].kind = "list"
                 /\ h[v2.n].kind = "list"
                 /\ h[v1.n].elems = h[v2.n].elems
      [] OTHER -> FALSE

\* o1 == o2 where deep_comp falls back to it: NaN equals nothing, a list
\* equals a list of equal elements, any other object equals only itself
PyEq(h, v1, v2) ==
    CASE v1.tag = "nan" \/ v2.tag = "nan" -> FALSE
      [] v1.tag = "none" /\ v2.tag = "none" -> TRUE
      [] v1.tag = "int" /\ v2.tag = "int" -> v1.n = v2.n
      [] v1.tag = "ref" /\ v2.tag = "ref" ->
            IF v1.n = v2.n THEN TRUE
            ELSE /\ h[v1.n].kind = "list"
                 /\ h[v2.n].kind = "list"
                 /\ h[v1.n].elems = h[v2.n].elems
      [] OTHER -> FALSE

FirstKeys(h, a1, a2) == KeysOf(h, a1)

\* set().union(o1.keys(), o2.keys())
UnionKeys(h, a1, a2) == KeysOf(h, a1) \cup KeysOf(h, a2)

RECURSIVE deep_comp(_, _, _), deep_comp_keys(_, _, _, _)
\* the loop over the union of the keys, ks being the keys still to visit
deep_comp_keys(h, a1, a2, ks) ==
    IF ks = {} THEN TRUE
    ELSE LET k == CHOOSE x \in ks : TRUE
         IN  IF k \in KeysOf(h, a1) /\ k \in KeysOf(h, a2)
             THEN IF ~deep_comp(h, GetItem(h, a1, k), GetItem(h, a2, k))
                  THEN FALSE
                  ELSE deep_comp_keys(h, a1, a2, ks \ {k})
             ELSE FALSE

deep_comp(h, x1, x2) ==
    LET both == HasDict(h, x1) /\ HasDict(h, x2)
        \* after o1, o2 = o1.__dict__, o2.__dict__ both are dicts
        dicts == both \/ (IsDict(h, x1) /\ IsDict(h, x2))
    IN  IF x1.tag # "none" /\ x2.tag # "none" /\ dicts
        THEN deep_comp_keys(h, x1.n, x2.n, UnionKeys(h, x1.n, x2.n))
        ELSE PyEq(h, x1, x2)

(***************************************************************************)
(* The merge specification: a caller builds a target and a source that     *)
(* share nothing, calls deep_update, and then calls it again, compares the *)
(* result with the source, or mutates the source.                          *)
(***************************************************************************)
EmptyDict == {<<<<>>, DictD>>}

MeterIdle ==
    /\ avg = [num |-> 0, den |-> 1]
    /\ sum = 0
    /\ cnt = 0
    /\ last = 0
    /\ hist = <<>>

MergeIdle ==
    /\ tRoot = NoneV
    /\ sRoot = NoneV
    /\ tIn = {}
    /\ sIn = {}
    /\ res1 = {}
    /\ ret = NoneV

CompIdle ==
    /\ o1 = NoneV
    /\ o2 = NoneV

InitMerge ==
    /\ \E t \in Targets, s \in Sources,
          ord \in KeyOrders :
            LET bt == Build(<<>>, t, <<>>, <<"a", "b">>)
                bs == Build(bt.heap, s, <<>>, ord)
            IN  /\ heap = bs.heap
                /\ tRoot = bt.val
                /\ sRoot = bs.val
                /\ tIn = t
                /\ sIn = s
                /\ ret = bt.val
    /\ res1 = {}
    /\ err = FALSE
    /\ cmp = FALSE
    /\ pc = "init"
    /\ CompIdle
    /\ MeterIdle

\* r = deep_update(T, S)
CallDeepUpdate ==
    /\ pc = "init"
    /\ LET r == deep_update(heap, tRoot, sRoot.n)
       IN  /\ heap' = r.heap
           /\ ret' = r.ret
           /\ err' = r.err
           /\ res1' = StructOf(r.heap, tRoot, <<>>)
           /\ pc' = IF r.err THEN "raised" ELSE "updated"
    /\ UNCHANGED <<tRoot, sRoot, tIn, sIn, cmp, compVars, meterVars>>

\* deep_update(r, S), r being what the first call returned
CallDeepUpdateAgain ==
    /\ pc = "updated"
    /\ LET r == deep_update(heap, ret, sRoot.n)
       IN  /\ heap' = r.heap
           /\ ret' = r.ret
           /\ err' = r.err
    /\ pc' = "updated2"
    /\ UNCHANGED <<tRoot, sRoot, tIn, sIn, res1, cmp, compVars, meterVars>>

\* deep_comp(r, S)
CompareResult ==
    /\ pc = "updated"
    /\ cmp' = deep_comp(heap, ret, sRoot)
    /\ pc' = "compared"
    /\ UNCHANGED <<heap, mergeVars, err, compVars, meterVars>>

\* the caller sets or deletes a key of a dict of the source
MutateSourceMap ==
    /\ pc = "updated"
    /\ \E a \in Reach(heap, sRoot, "dict"), k \in Keys :
          \/ heap' = SetItem(heap, a, k, IntV(9))
          \/ /\ k \in KeysOf(heap, a)
             /\ heap' = DelItem(heap, a, k)
    /\ pc' = "mutatedMap"
    /\ UNCHANGED <<mergeVars, err, cmp, compVars, meterVars>>

\* the caller appends to a list held in the source
MutateSourceSeq ==
    /\ pc = "updated"
    /\ \E a \in Reach(heap, sRoot, "list") :
          heap' = [heap EXCEPT ![a].elems = Append(@, 9)]
    /\ pc' = "mutatedSeq"
    /\ UNCHANGED <<mergeVars, err, cmp, compVars, meterVars>>

NextMerge ==
    \/ CallDeepUpdate
    \/ CallDeepUpdateAgain
    \/ CompareResult
    \/ MutateSourceMap
    \/ MutateSourceSeq

SpecMerge == InitMerge /\ [][NextMerge]_vars

(***************************************************************************)
(* The comparison specification: a caller builds two values and calls      *)
(* deep_comp on them, in either order, or on the first with itself.        *)
(***************************************************************************)
InitComp ==
    /\ \E x \in Pairs, y \in Pairs :
            LET bx == Build(<<>>, x, <<>>, <<"a", "b">>)
                by == Build(bx.heap, y, <<>>, <<"b", "a">>)
            IN  /\ heap = by.heap
                /\ o1 = bx.val
                /\ o2 = by.val
    /\ err = FALSE
    /\ cmp = FALSE
    /\ pc = "init"
    /\ MergeIdle
    /\ MeterIdle

CallDeepComp(x, y, at) ==
    /\ pc = "init"
    /\ cmp' = deep_comp(heap, x, y)
    /\ pc' = at
    /\ UNCHANGED <<heap, mergeVars, err, compVars, meterVars>>

NextComp ==
    \/ CallDeepComp(o1, o2, "cmp12")
    \/ CallDeepComp(o2, o1, "cmp21")

SpecComp == InitComp /\ [][NextComp]_vars

\* deep_comp(X, X): both arguments are the one value
InitSelf ==
    /\ \E x \in Selves, ord \in KeyOrders :
            LET bx == Build(<<>>, x, <<>>, ord)
            IN  /\ heap = bx.heap
                /\ o1 = bx.val
                /\ o2 = bx.val
    /\ err = FALSE
    /\ cmp = FALSE
    /\ pc = "init"
    /\ MergeIdle
    /\ MeterIdle

NextSelf == CallDeepComp(o1, o2, "cmp11")

SpecSelf == InitSelf /\ [][NextSelf]_vars

(***************************************************************************)
(* AverageMeter.  avg is the quotient sum / cnt, kept as the pair          *)
(* [num, den]; a division by zero raises and leaves avg as it was.         *)
(***************************************************************************)
Vals == {-1, 2, 3}
Weights == {-1, 0, 1, 2}

InitMeter ==
    /\ MeterIdle
    /\ heap = <<>>
    /\ err = FALSE
    /\ cmp = FALSE
    /\ pc = "new"
    /\ MergeIdle
    /\ CompIdle

reset ==
    /\ avg' = [num |-> 0, den |-> 1]
    /\ sum' = 0
    /\ cnt' = 0
    /\ last' = 0
    /\ hist' = <<>>
    /\ err' = FALSE
    /\ pc' = "reset"
    /\ UNCHANGED <<heap, mergeVars, cmp, compVars>>

UpdateAvgBeforeSum(val, n) ==
    /\ Len(hist) < MaxUpdates
    /\ last' = val
    /\ sum' = sum + val * n
    /\ cnt' = cnt + n
    /\ IF cnt + n = 0
       THEN /\ avg' = avg
            /\ err' = TRUE
            /\ pc' = "raised"
       ELSE /\ avg' = [num |-> sum, den |-> cnt + n]
            /\ err' = FALSE
            /\ pc' = "updated"
    /\ hist' = Append(hist, <<val, n>>)
    /\ UNCHANGED <<heap, mergeVars, cmp, compVars>>

update(val, n) ==
    /\ Len(hist) < MaxUpdates
    /\ last' = val
    /\ sum' = sum + val * n
    /\ cnt' = cnt + n
    /\ IF cnt + n = 0
       THEN /\ avg' = avg
            /\ err' = TRUE
            /\ pc' = "raised"
       ELSE /\ avg' = [num |-> sum + val * n, den |-> cnt + n]
            /\ err' = FALSE
            /\ pc' = "updated"
    /\ hist' = Append(hist, <<val, n>>)
    /\ UNCHANGED <<heap, mergeVars, cmp, compVars>>

NextMeter ==
    \/ reset
    \/ \E val \in Vals, n \in Weights : update(val, n)

SpecMeter == InitMeter /\ [][NextMeter]_vars

(***************************************************************************)
(* Properties of deep_update, checked under SpecMerge                      *)
(***************************************************************************)
Parent(p) == SubSeq(p, 1, Len(p) - 1)

\* the value found by following the path p from v
RECURSIVE ValAt(_, _, _)
ValAt(h, v, p) ==
    IF p = <<>> THEN v ELSE ValAt(h, GetItem(h, v.n, Head(p)), Tail(p))

\* p and everything above it is a mapping in the target and in the source
MergePoint(p) ==
    \A i \in 0..Len(p) :
        /\ <<SubSeq(p, 1, i), DictD>> \in tIn
        /\ <<SubSeq(p, 1, i), DictD>> \in sIn

\* the keys of the mapping at path p of the structure t
KeysAt(t, p) == {k \in Keys : Append(p, k) \in Paths(t)}

HeapObjD(d) == d[1] \in {"dict", "obj", "list"}

\* the objects the caller built before the call
InitialObjs ==
    Cardinality({e \in tIn : HeapObjD(e[2])})
        + Cardinality({e \in sIn : HeapObjD(e[2])})

HasNan(t) == \E e \in t : e[2] = NanD

\* C1: deep_update(T, S) completes without raising, whatever T and S hold
\* at a common key.
C1_NeverRaises == pc # "raised"

\* C2: after deep_update(T, S) every key of S (at every level) is a key of
\* the result, and where the source value is not a mapping the result
\* holds exactly that value, the very object for a sequence.
C2_SourceKeysAndLeaves ==
    pc = "updated" =>
        \A p \in Paths(sIn) :
            /\ p \in Paths(res1)
            /\ At(sIn, p) # DictD =>
                  /\ At(res1, p) = At(sIn, p)
                  /\ ValAt(heap, ret, p) = ValAt(heap, sRoot, p)

C2_Witness ==
    /\ pc = "updated"
    /\ <<<<"a">>, ListD(<<1, 2>>)>> \in tIn
    /\ <<<<"a">>, ListD(<<3>>)>> \in sIn
    /\ <<<<"b">>, IntD(1)>> \in tIn
    /\ <<<<"b">>, IntD(2)>> \in sIn

\* C3: deep_update(T, S) is the recursive union of T and S.  Wherever T
\* and S are both mappings down to the parent of a key: the result has
\* exactly the keys of the two; a key of T alone keeps its old value; a
\* key of S alone with a mapping value holds a newly created mapping with
\* the content of S[k]; a key with a mapping on both sides is merged in
\* turn, so the keys of T[k] absent from S[k] survive.
C3_RecursiveUnion ==
    pc = "updated" =>
        /\ \A p \in Paths(tIn) :
              MergePoint(p) =>
                  KeysAt(res1, p) = KeysAt(tIn, p) \cup KeysAt(sIn, p)
        /\ \A p \in (Paths(tIn) \cup Paths(sIn)) \ {<<>>} :
              MergePoint(Parent(p)) =>
                  /\ p \notin Paths(sIn) => Sub(res1, p) = Sub(tIn, p)
                  /\ (p \notin Paths(tIn) /\ <<p, DictD>> \in sIn) =>
                        /\ Sub(res1, p) = Sub(sIn, p)
                        /\ ValAt(heap, ret, p).n > InitialObjs
                  /\ (<<p, DictD>> \in tIn /\ <<p, DictD>> \in sIn) =>
                        <<p, DictD>> \in res1

C3_Witness ==
    /\ pc = "updated"
    /\ tIn = {<<<<>>, DictD>>, <<<<"b">>, DictD>>, <<<<"b", "a">>, IntD(1)>>}
    /\ sIn = {<<<<>>, DictD>>, <<<<"b">>, DictD>>, <<<<"b", "b">>, IntD(2)>>}
    /\ res1 = tIn \cup sIn

\* C4: merging the source a second time into the result of the first
\* merge completes and leaves the structure of the result as it was.
C4_Idempotent ==
    pc = "updated2" => ~err /\ StructOf(heap, ret, <<>>) = res1

C4_Witness ==
    /\ pc = "updated2"
    /\ <<<<"a">>, ListD(<<1, 2>>)>> \in tIn
    /\ <<<<"a">>, ListD(<<3>>)>> \in sIn
    /\ res1 # tIn

\* C5 as claimed: deep_comp(deep_update({}, S), S) is true for any S.
C5_IdentityMerge ==
    (pc = "compared" /\ tIn = EmptyDict) => cmp

\* C5 amended: deep_comp(deep_update({}, S), S) is true for any S that
\* holds no NaN.
C5_IdentityMergeNoNan ==
    (pc = "compared" /\ tIn = EmptyDict /\ ~HasNan(sIn)) => cmp

C5_Witness ==
    /\ pc = "compared"
    /\ tIn = EmptyDict
    /\ sIn = {<<<<>>, DictD>>, <<<<"a">>, DictD>>, <<<<"a", "b">>, IntD(2)>>}
    /\ cmp

\* C9 as claimed: the call returns the target it mutated, the source is
\* unchanged, no mapping of the source is reachable from the target, and
\* no later mutation of the source changes the target.
C9_SourceDetached ==
    /\ pc = "updated" =>
          /\ ret = tRoot
          /\ StructOf(heap, sRoot, <<>>) = sIn
          /\ Reach(heap, tRoot, "dict") \cap Reach(heap, sRoot, "dict") = {}
    /\ pc \in {"mutatedMap", "mutatedSeq"} =>
          StructOf(heap, tRoot, <<>>) = res1

\* C9 amended: the call returns the target it mutated, the source is
\* unchanged, no mapping of the source is reachable from the target, and
\* no later setting or deleting of a key in a mapping of the source
\* changes the target.
C9_SourceMapsDetached ==
    /\ pc = "updated" =>
          /\ ret = tRoot
          /\ StructOf(heap, sRoot, <<>>) = sIn
          /\ Reach(heap, tRoot, "dict") \cap Reach(heap, sRoot, "dict") = {}
    /\ pc = "raised" => StructOf(heap, sRoot, <<>>) = sIn
    /\ pc = "mutatedMap" => StructOf(heap, tRoot, <<>>) = res1

C9_Witness ==
    /\ pc = "mutatedMap"
    /\ tIn = EmptyDict
    /\ <<<<"a", "b">>, IntD(2)>> \in sIn
    /\ <<<<"a", "b">>, IntD(2)>> \in res1
    /\ <<<<"a", "b">>, IntD(9)>> \in StructOf(heap, sRoot, <<>>)

(***************************************************************************)
(* Properties of deep_comp, checked under SpecComp and SpecSelf            *)
(***************************************************************************)
\* the arguments of the call that set cmp
Arg1 == IF pc = "cmp21" THEN o2 ELSE o1
Arg2 == IF pc = "cmp21" THEN o1 ELSE o2
Called == pc \in {"cmp12", "cmp21", "cmp11"}

\* somewhere the same path holds a field-bearing object on one side and a
\* mapping on the other
MixesObjAndDict(x, y) ==
    \E e \in x, f \in y :
        /\ e[1] = f[1]
        /\ {e[2], f[2]} = {DictD, ObjD}

\* C6: for two mappings a and b, deep_comp(a, b) is true exactly when the
\* two have the same keys and deep_comp(a[k], b[k]) is true for every key.
C6_MappingsKeyByKey ==
    (Called /\ IsDict(heap, Arg1) /\ IsDict(heap, Arg2)) =>
        cmp = (/\ KeysOf(heap, Arg1.n) = KeysOf(heap, Arg2.n)
               /\ \A k \in KeysOf(heap, Arg1.n) :
                     deep_comp(heap, GetItem(heap, Arg1.n, k),
                               GetItem(heap, Arg2.n, k)))

C6_Witness ==
    /\ pc = "cmp12"
    /\ StructOf(heap, o1, <<>>) =
          {<<<<>>, DictD>>, <<<<"a">>, DictD>>, <<<<"a", "b">>, IntD(1)>>}
    /\ StructOf(heap, o2, <<>>) =
          {<<<<>>, DictD>>, <<<<"a">>, DictD>>, <<<<"a", "b">>, IntD(2)>>}
    /\ ~cmp

\* C7 as claimed: deep_comp(X, X) is true for every X.
C7_Reflexive == pc = "cmp11" => cmp

\* C7 amended: deep_comp(X, X) is true for every X that holds no NaN.
C7_ReflexiveNoNan ==
    (pc = "cmp11" /\ ~HasNan(StructOf(heap, o1, <<>>))) => cmp

C7_Witness ==
    /\ pc = "cmp11"
    /\ StructOf(heap, o1, <<>>) =
          {<<<<>>, DictD>>, <<<<"a">>, ObjD>>, <<<<"a", "b">>, NoneD>>,
           <<<<"b">>, ListD(<<1, 2>>)>>}
    /\ cmp

\* C8: deep_comp(a, b) = deep_comp(b, a) unless a and b hold, at the same
\* place, a field-bearing object on one side and a mapping on the other.
C8_Symmetric ==
    (Called /\ ~MixesObjAndDict(StructOf(heap, o1, <<>>),
                                StructOf(heap, o2, <<>>))) =>
        cmp = deep_comp(heap, Arg2, Arg1)

C8_Witness ==
    /\ pc = "cmp21"
    /\ StructOf(heap, o1, <<>>) = {<<<<>>, ObjD>>, <<<<"a">>, IntD(1)>>}
    /\ StructOf(heap, o2, <<>>) =
          {<<<<>>, ObjD>>, <<<<"a">>, IntD(1)>>, <<<<"b">>, IntD(2)>>}
    /\ ~cmp

(***************************************************************************)
(* Properties of AverageMeter, checked under SpecMeter                     *)
(***************************************************************************)
RECURSIVE SumN(_), SumValN(_)
SumN(h) == IF h = <<>> THEN 0 ELSE h[1][2] + SumN(Tail(h))
SumValN(h) == IF h = <<>> THEN 0 ELSE h[1][1] * h[1][2] + SumValN(Tail(h))

\* C10: after a reset (or construction) and m >= 1 updates of positive
\* total weight, cnt is the sum of the weights, sum the weighted sum of the
\* values, last the last value and avg = sum / cnt; reset() zeroes all four.
C10_RunningMean ==
    /\ (Len(hist) >= 1 /\ SumN(hist) > 0) =>
          /\ cnt = SumN(hist)
          /\ sum = SumValN(hist)
          /\ last = hist[Len(hist)][1]
          /\ avg.den # 0
          /\ avg.num * cnt = sum * avg.den
    /\ pc \in {"new", "reset"} =>
          /\ avg.num = 0
          /\ sum = 0
          /\ cnt = 0
          /\ last = 0

C10_Witness ==
    /\ pc = "updated"
    /\ hist = <<<<2, 1>>, <<3, -1>>, <<-1, 2>>>>
    /\ avg = [num |-> -3, den |-> 2]

====
